---- MODULE Spec2Model ----
(***************************************************************************)
(* Model of script_dados_bovespa.py: a script that creates data/ and       *)
(* logs/, configures a file logger, fetches the ^BVSP price history from   *)
(* the yfinance provider, and saves it as data/bovespa_<timestamp>.csv.    *)
(*                                                                         *)
(* Several invocations of the script (Runs) share one working directory:   *)
(* the data/ files, the append-mode log file and the wall clock are        *)
(* shared, everything else is per process.  Each process is a program      *)
(* counter over the source's statements; the provider (yf.Ticker and       *)
(* Ticker.history) is the environment: it returns a table or raises.       *)
(*                                                                         *)
(* Two specifications use the same function bodies:                        *)
(*   Spec      every run executes the __main__ block (lines 66-77);        *)
(*   SpecUnit  one process calls fetch_bovespa_data(period) and            *)
(*             save_data(table) directly, with arbitrary arguments, after  *)
(*             the directories and the logger have been set up.            *)
(*                                                                         *)
(* Not modelled: the "%(asctime)s" prefix of a log line (no statement of   *)
(* the script reads it), and process-control exceptions (KeyboardInterrupt,*)
(* SystemExit), which are not raised by the provider but delivered to the  *)
(* process; the class hierarchy below contains them so that the meaning    *)
(* of "except Exception" is kept.                                          *)
(***************************************************************************)
EXTENDS Integers, Sequences, FiniteSets, TLC

\* ---------------------------------------------------------------- bounds
MaxRows == 6          \* rows of the largest table the provider returns
MaxNow == 3           \* last clock tick
TicksPerSecond == 2   \* clock ticks per wall-clock second
MaxCalls == 2         \* direct calls made by the unit driver

\* ------------------------------------------------------------- constants
HeadRows == 5         \* DataFrame.head() default n

TICKER == "^BVSP"
DATA_DIR == "data"
LOG_DIR == "logs"

\* The invocations of the script: two processes started in the same working
\* directory, in any interleaving (one after the other included).
Runs == {"run1", "run2"}
\* The process that makes the direct calls of SpecUnit.
FirstRun == "run1"

Min(a, b) == IF a <= b THEN a ELSE b

\* ------------------------------------------------------------ DataFrames
\* A table: column labels, the date index, and one row of values per index
\* entry.  pd.DataFrame() has no columns and no index.
EmptyDataFrame == [columns |-> <<>>, index |-> <<>>, values |-> <<>>]

Columns == <<"Close", "Volume">>

\* The provider's table of n rows, dates ascending.
PriceTable(n) ==
    [columns |-> Columns,
     index   |-> [i \in 1..n |-> i],
     values  |-> [i \in 1..n |-> <<100 + i, 1000 * i>>]]

\* A table with an index and no columns.
IndexOnlyTable == [columns |-> <<>>, index |-> <<1>>, values |-> << <<>> >>]

\* What Ticker.history may return: an empty table (with columns), one row,
\* more rows than head() shows, or an index without columns.
ProviderTables == {PriceTable(0), PriceTable(1), PriceTable(MaxRows), IndexOnlyTable}

\* DataFrame.empty: true when any axis has length 0.
DataFrameEmpty(t) == Len(t.index) = 0 \/ Len(t.columns) = 0

\* DataFrame.head(): the first HeadRows rows.
DataFrameHead(t) ==
    [columns |-> t.columns,
     index   |-> SubSeq(t.index, 1, Min(HeadRows, Len(t.index))),
     values  |-> SubSeq(t.values, 1, Min(HeadRows, Len(t.index)))]

\* DataFrame.to_csv(index=True): a header line (index label, then the column
\* labels) followed by one line per row (index value, then the row's values).
CsvCells(row) == [j \in 1..Len(row) |-> ToString(row[j])]

ToCsv_noheader(t) ==
    [i \in 1..Len(t.index) |-> <<ToString(t.index[i])>> \o CsvCells(t.values[i])]

ToCsv(t) ==
    << <<"Date">> \o t.columns >> \o
    [i \in 1..Len(t.index) |-> <<ToString(t.index[i])>> \o CsvCells(t.values[i])]

\* ------------------------------------------------------------ exceptions
\* The part of Python's exception hierarchy the script's handler depends on.
Base(cls) ==
    CASE cls = "ConnectionError"   -> "OSError"
      [] cls = "OSError"           -> "Exception"
      [] cls = "ValueError"        -> "Exception"
      [] cls = "Exception"         -> "BaseException"
      [] cls = "KeyboardInterrupt" -> "BaseException"
      [] cls = "SystemExit"        -> "BaseException"
      [] OTHER                     -> "BaseException"

RECURSIVE IsSubclass(_, _)
IsSubclass(cls, of) ==
    IF cls = of THEN TRUE
    ELSE IF cls = "BaseException" THEN FALSE
    ELSE IsSubclass(Base(cls), of)

\* The errors the provider raises: library and network errors, all of them
\* "non-system-exiting" exceptions.  An exception carries its class, its
\* message (str(e)) and, in its traceback, the call that raised it.
Raised(e, call) == [cls |-> e.cls, msg |-> e.msg, tb |-> call]

ProviderExceptions ==
    {[cls |-> "ConnectionError", msg |-> "connection timed out"],
     [cls |-> "ValueError",      msg |-> "invalid period"],
     [cls |-> "Exception",       msg |-> "boom"]}

\* "except Exception as e" (line 55)
ExceptClause_narrow(e) == IsSubclass(e.cls, "ValueError")

ExceptClause(e) == IsSubclass(e.cls, "Exception")

\* ------------------------------------------------------------------ state
VARIABLES
    now,            \* wall clock, in ticks
    dataDir,        \* data/ exists
    logDir,         \* logs/ exists
    logFile,        \* lines of logs/bovespa_data.log, oldest first
    files,          \* data/: file name -> lines
    writes,         \* history: the writes to data/, in order
    pc,             \* per run: the statement to execute next
    ret,            \* per run: where the current call returns to
    period,         \* per run: fetch_bovespa_data's parameter
    data,           \* per run: fetch_bovespa_data's local `data` (<<>> unset)
    exc,            \* per run: the exception raised by the provider (<<>> none)
    result,         \* per run: fetch_bovespa_data's return value (<<>> none yet)
    arg,            \* per run: save_data's parameter
    timestamp,      \* per run: save_data's local `timestamp`
    readAt,         \* per run: the tick at which datetime.now() was read
    stdout,         \* per run: what was printed
    exit,           \* per run: exit status (<<>> while running)
    logConfigured,  \* per run: logging.basicConfig was called
    calls,          \* per run: how often each step was started
    mark            \* per run: number of its log lines when the current call began

locals == <<pc, ret, period, data, exc, result, arg, timestamp, readAt,
            stdout, exit, logConfigured, calls, mark>>
vars == <<now, dataDir, logDir, logFile, files, writes, pc, ret, period, data,
          exc, result, arg, timestamp, readAt, stdout, exit, logConfigured,
          calls, mark>>

Periods == {"1d", "1mo", "1y", "bogus"}

\* ---------------------------------------------------------------- logging
\* One line of the log file: who wrote it, "%(levelname)s", "%(message)s"
\* (the message as the fragments the f-string joins).
LogLine(r, level, msg) == [run |-> r, levelname |-> level, message |-> msg]

\* line 44
MsgStart(p) == <<"Iniciando coleta de dados para ", TICKER, " (período: ", p, ")">>
\* line 49
MsgEmpty == <<"Nenhum dado foi retornado pela API.">>
\* line 52
MsgSuccess == <<"Dados coletados com sucesso.">>
\* line 56
MsgError_nomsg(e) == <<"Erro na coleta de dados: ">>

MsgError(e) == <<"Erro na coleta de dados: ", e.msg>>
\* line 64
MsgSaved(fn) == <<"Dados salvos em ">> \o fn

\* The lines of the log written by run r, in order.
RunLog(r) == SelectSeq(logFile, LAMBDA l : l.run = r)

\* ---------------------------------------------------------------- initial
NoCalls == [setup |-> 0, configure |-> 0, fetch |-> 0, save |-> 0]

InitLocals(start) ==
    /\ pc = [r \in Runs |-> start[r]]
    /\ ret = [r \in Runs |-> "none"]
    /\ period = [r \in Runs |-> "none"]
    /\ data = [r \in Runs |-> <<>>]
    /\ exc = [r \in Runs |-> <<>>]
    /\ result = [r \in Runs |-> <<>>]
    /\ arg = [r \in Runs |-> <<>>]
    /\ timestamp = [r \in Runs |-> <<>>]
    /\ readAt = [r \in Runs |-> <<>>]
    /\ stdout = [r \in Runs |-> <<>>]
    /\ exit = [r \in Runs |-> <<>>]
    /\ calls = [r \in Runs |-> NoCalls]
    /\ mark = [r \in Runs |-> 0]

\* The working directory before the script runs: data/ and logs/ may or may
\* not exist already; the log is empty and data/ holds no file.
Init ==
    /\ now = 0
    /\ dataDir \in BOOLEAN
    /\ logDir \in BOOLEAN
    /\ logFile = <<>>
    /\ files = [n \in {} |-> <<>>]
    /\ writes = <<>>
    /\ logConfigured = [r \in Runs |-> FALSE]
    /\ InitLocals([r \in Runs |-> "main_67"])

\* ------------------------------------------------------------------ clock
Tick ==
    /\ now < MaxNow
    /\ now' = now + 1
    /\ UNCHANGED <<dataDir, logDir, logFile, files, writes>>
    /\ UNCHANGED locals

\* ------------------------------------------------------- small operations
Bump(c, step) == [c EXCEPT ![step] = @ + 1]

\* logging.info / warning / error: one line appended to the log file.
Emit(r, level, msg) == logFile' = Append(logFile, LogLine(r, level, msg))

\* logging.basicConfig(filename=...): the FileHandler opens the file in
\* append mode, which keeps what the file holds.
OpenLog_truncate(lines) == <<>>

OpenLog(lines) == lines

\* datetime.now().strftime("%Y%m%d_%H%M%S"): the clock cut to whole seconds.
Strftime_ticks(t) == ToString(t)

Strftime(t) == ToString(t \div TicksPerSecond)

\* line 62: DATA_DIR / f"bovespa_{timestamp}.csv"
Filename(ts) == <<DATA_DIR, "bovespa_", ts, ".csv">>

\* open(filename, "w") and write: the file is created, or its content replaced.
WriteFile_keep(fs, fn, lines) ==
    [n \in DOMAIN fs \cup {fn} |-> IF n \in DOMAIN fs THEN fs[n] ELSE lines]

WriteFile(fs, fn, lines) ==
    [n \in DOMAIN fs \cup {fn} |-> IF n = fn THEN lines ELSE fs[n]]

\* line 50: "return pd.DataFrame()" on an empty provider table
ReturnOnEmpty_data(t) == t

ReturnOnEmpty(t) == EmptyDataFrame

\* line 53: "return data"
ReturnData_head(t) == DataFrameHead(t)

ReturnData(t) == t

\* line 72: "if not bovespa_data.empty"
MainGuard_always(t) == TRUE

MainGuard(t) == ~DataFrameEmpty(t)

\* An exception nobody catches ends the process with a traceback, status 1.
Uncaught(r) ==
    /\ pc' = [pc EXCEPT ![r] = "uncaught"]
    /\ exit' = [exit EXCEPT ![r] = <<1>>]

\* --------------------------------------------- __main__ (lines 66 to 77)
\* line 67: setup_directories(); both mkdir(exist_ok=True) succeed.
SetupDirectories(r) ==
    /\ pc[r] = "main_67"
    /\ dataDir' = TRUE
    /\ logDir' = TRUE
    /\ calls' = [calls EXCEPT ![r] = Bump(@, "setup")]
    /\ pc' = [pc EXCEPT ![r] = "main_68"]
    /\ UNCHANGED <<now, logFile, files, writes, ret, period, data, exc, result,
                   arg, timestamp, readAt, stdout, exit, logConfigured, mark>>

\* line 67: a mkdir of a missing directory fails (permissions, a file in the
\* way); the OSError is not caught.  mkdir of an existing directory cannot
\* fail.  When the second mkdir fails the first has already created data/.
SetupDirectoriesFails(r) ==
    /\ pc[r] = "main_67"
    /\ \/ ~dataDir /\ UNCHANGED dataDir
       \/ ~logDir /\ dataDir' = TRUE
    /\ calls' = [calls EXCEPT ![r] = Bump(@, "setup")]
    /\ Uncaught(r)
    /\ UNCHANGED <<now, logDir, logFile, files, writes, ret, period, data, exc,
                   result, arg, timestamp, readAt, stdout, logConfigured, mark>>

\* line 68: configure_logging()
ConfigureLogging(r) ==
    /\ pc[r] = "main_68"
    /\ logConfigured' = [logConfigured EXCEPT ![r] = TRUE]
    /\ logFile' = OpenLog(logFile)
    /\ calls' = [calls EXCEPT ![r] = Bump(@, "configure")]
    /\ pc' = [pc EXCEPT ![r] = "main_70"]
    /\ UNCHANGED <<now, dataDir, logDir, files, writes, ret, period, data, exc,
                   result, arg, timestamp, readAt, stdout, exit, mark>>

\* Entering fetch_bovespa_data(p) with return address back.
EnterFetch(r, p, back) ==
    /\ period' = [period EXCEPT ![r] = p]
    /\ ret' = [ret EXCEPT ![r] = back]
    /\ data' = [data EXCEPT ![r] = <<>>]
    /\ exc' = [exc EXCEPT ![r] = <<>>]
    /\ result' = [result EXCEPT ![r] = <<>>]
    /\ mark' = [mark EXCEPT ![r] = Len(RunLog(r))]
    /\ calls' = [calls EXCEPT ![r] = Bump(@, "fetch")]
    /\ pc' = [pc EXCEPT ![r] = "fetch_44"]

\* Entering save_data(t) with return address back.
EnterSave(r, t, back) ==
    /\ arg' = [arg EXCEPT ![r] = <<t>>]
    /\ ret' = [ret EXCEPT ![r] = back]
    /\ timestamp' = [timestamp EXCEPT ![r] = <<>>]
    /\ readAt' = [readAt EXCEPT ![r] = <<>>]
    /\ mark' = [mark EXCEPT ![r] = Len(RunLog(r))]
    /\ calls' = [calls EXCEPT ![r] = Bump(@, "save")]
    /\ pc' = [pc EXCEPT ![r] = "save_61"]

\* line 70: bovespa_data = fetch_bovespa_data(period="1mo")
MainCallFetch(r) ==
    /\ pc[r] = "main_70"
    /\ EnterFetch(r, "1mo", "main_72")
    /\ UNCHANGED <<now, dataDir, logDir, logFile, files, writes, arg, timestamp,
                   readAt, stdout, exit, logConfigured>>

PrintText(s) == [kind |-> "text", text |-> s, frame |-> EmptyDataFrame]
PrintFrame(t) == [kind |-> "frame", text |-> "", frame |-> t]

\* lines 72 to 75: the table is not empty: print its head and save it.
MainSave(r) ==
    /\ pc[r] = "main_72"
    /\ MainGuard(result[r][1])
    /\ stdout' = [stdout EXCEPT ![r] =
                    @ \o <<PrintText("Primeiras linhas dos dados:"),
                           PrintFrame(DataFrameHead(result[r][1]))>>]
    /\ EnterSave(r, result[r][1], "main_end")
    /\ UNCHANGED <<now, dataDir, logDir, logFile, files, writes, period, data,
                   exc, result, exit, logConfigured>>

\* lines 76 to 77: the table is empty: print the failure message.
MainFailure(r) ==
    /\ pc[r] = "main_72"
    /\ ~MainGuard(result[r][1])
    /\ stdout' = [stdout EXCEPT ![r] =
                    Append(@, PrintText("Falha na coleta de dados. Verifique os logs."))]
    /\ pc' = [pc EXCEPT ![r] = "main_end"]
    /\ UNCHANGED <<now, dataDir, logDir, logFile, files, writes, ret, period,
                   data, exc, result, arg, timestamp, readAt, exit,
                   logConfigured, calls, mark>>

\* The end of the script: the interpreter exits with status 0.
MainEnd(r) ==
    /\ pc[r] = "main_end"
    /\ pc' = [pc EXCEPT ![r] = "exited"]
    /\ exit' = [exit EXCEPT ![r] = <<0>>]
    /\ UNCHANGED <<now, dataDir, logDir, logFile, files, writes, ret, period,
                   data, exc, result, arg, timestamp, readAt, stdout,
                   logConfigured, calls, mark>>

\* ------------------------------------- fetch_bovespa_data (lines 33 to 57)
\* line 44: logging.info(start of fetch)
FetchLogStart(r) ==
    /\ pc[r] = "fetch_44"
    /\ Emit(r, "INFO", MsgStart(period[r]))
    /\ pc' = [pc EXCEPT ![r] = "fetch_45"]
    /\ UNCHANGED <<now, dataDir, logDir, files, writes, ret, period, data, exc,
                   result, arg, timestamp, readAt, stdout, exit, logConfigured,
                   calls, mark>>

\* line 45: yf.Ticker(TICKER) returns the handle.
TickerReturns(r) ==
    /\ pc[r] = "fetch_45"
    /\ pc' = [pc EXCEPT ![r] = "fetch_46"]
    /\ UNCHANGED <<now, dataDir, logDir, logFile, files, writes, ret, period,
                   data, exc, result, arg, timestamp, readAt, stdout, exit,
                   logConfigured, calls, mark>>

\* line 45: yf.Ticker(TICKER) raises.
TickerRaises(r) ==
    /\ pc[r] = "fetch_45"
    /\ \E e \in ProviderExceptions : exc' = [exc EXCEPT ![r] = <<Raised(e, "Ticker")>>]
    /\ pc' = [pc EXCEPT ![r] = "fetch_55"]
    /\ UNCHANGED <<now, dataDir, logDir, logFile, files, writes, ret, period,
                   data, result, arg, timestamp, readAt, stdout, exit,
                   logConfigured, calls, mark>>

\* line 46: ticker.history(period=period) returns a table.
HistoryReturns(r) ==
    /\ pc[r] = "fetch_46"
    /\ \E t \in ProviderTables : data' = [data EXCEPT ![r] = <<t>>]
    /\ pc' = [pc EXCEPT ![r] = "fetch_48"]
    /\ UNCHANGED <<now, dataDir, logDir, logFile, files, writes, ret, period,
                   exc, result, arg, timestamp, readAt, stdout, exit,
                   logConfigured, calls, mark>>

\* line 46: ticker.history(period=period) raises.
HistoryRaises(r) ==
    /\ pc[r] = "fetch_46"
    /\ \E e \in ProviderExceptions : exc' = [exc EXCEPT ![r] = <<Raised(e, "history")>>]
    /\ pc' = [pc EXCEPT ![r] = "fetch_55"]
    /\ UNCHANGED <<now, dataDir, logDir, logFile, files, writes, ret, period,
                   data, result, arg, timestamp, readAt, stdout, exit,
                   logConfigured, calls, mark>>

\* lines 48 to 53: warn and return pd.DataFrame() when the table is empty,
\* else log the success and return the table.
FetchReturn(r) ==
    /\ pc[r] = "fetch_48"
    /\ IF DataFrameEmpty(data[r][1])
       THEN /\ Emit(r, "WARNING", MsgEmpty)
            /\ result' = [result EXCEPT ![r] = <<ReturnOnEmpty(data[r][1])>>]
       ELSE /\ Emit(r, "INFO", MsgSuccess)
            /\ result' = [result EXCEPT ![r] = <<ReturnData(data[r][1])>>]
    /\ pc' = [pc EXCEPT ![r] = ret[r]]
    /\ UNCHANGED <<now, dataDir, logDir, files, writes, ret, period, data, exc,
                   arg, timestamp, readAt, stdout, exit, logConfigured, calls,
                   mark>>

\* lines 55 to 57: an exception the clause matches is logged and an empty
\* table returned; any other leaves the function.
FetchExcept(r) ==
    /\ pc[r] = "fetch_55"
    /\ IF ExceptClause(exc[r][1])
       THEN /\ Emit(r, "ERROR", MsgError(exc[r][1]))
            /\ result' = [result EXCEPT ![r] = <<EmptyDataFrame>>]
            /\ pc' = [pc EXCEPT ![r] = ret[r]]
            /\ UNCHANGED exit
       ELSE /\ Uncaught(r)
            /\ UNCHANGED <<logFile, result>>
    /\ UNCHANGED <<now, dataDir, logDir, files, writes, ret, period, data, exc,
                   arg, timestamp, readAt, stdout, logConfigured, calls, mark>>

\* --------------------------------------------- save_data (lines 59 to 64)
\* line 61: timestamp = datetime.now().strftime(...)
SaveTimestamp(r) ==
    /\ pc[r] = "save_61"
    /\ readAt' = [readAt EXCEPT ![r] = <<now>>]
    /\ timestamp' = [timestamp EXCEPT ![r] = <<Strftime(now)>>]
    /\ pc' = [pc EXCEPT ![r] = "save_63"]
    /\ UNCHANGED <<now, dataDir, logDir, logFile, files, writes, ret, period,
                   data, exc, result, arg, stdout, exit, logConfigured, calls,
                   mark>>

\* lines 62 to 63: data.to_csv(filename, index=True); a missing data/ makes
\* the open fail, and save_data catches nothing.
SaveToCsv(r) ==
    /\ pc[r] = "save_63"
    /\ IF dataDir
       THEN /\ files' = WriteFile(files, Filename(timestamp[r][1]), ToCsv(arg[r][1]))
            /\ writes' = Append(writes, [run |-> r, name |-> Filename(timestamp[r][1]),
                                         lines |-> ToCsv(arg[r][1])])
            /\ pc' = [pc EXCEPT ![r] = "save_64"]
            /\ UNCHANGED exit
       ELSE /\ Uncaught(r)
            /\ UNCHANGED <<files, writes>>
    /\ UNCHANGED <<now, dataDir, logDir, logFile, ret, period, data, exc,
                   result, arg, timestamp, readAt, stdout, logConfigured, calls,
                   mark>>

\* line 64: logging.info(f"Dados salvos em {filename}")
SaveLog(r) ==
    /\ pc[r] = "save_64"
    /\ Emit(r, "INFO", MsgSaved(Filename(timestamp[r][1])))
    /\ pc' = [pc EXCEPT ![r] = ret[r]]
    /\ UNCHANGED <<now, dataDir, logDir, files, writes, ret, period, data, exc,
                   result, arg, timestamp, readAt, stdout, exit, logConfigured,
                   calls, mark>>

\* ------------------------------------------------------------ direct calls
\* The arguments save_data is called with directly.
SaveArguments == ProviderTables \cup {EmptyDataFrame}

\* The state after lines 67 and 68, from which the functions are called.
InitUnit ==
    /\ now = 0
    /\ dataDir = TRUE
    /\ logDir = TRUE
    /\ logFile = <<>>
    /\ files = [n \in {} |-> <<>>]
    /\ writes = <<>>
    /\ logConfigured = [r \in Runs |-> r = FirstRun]
    /\ InitLocals([r \in Runs |-> IF r = FirstRun THEN "test" ELSE "idle"])

CallsMade(r) == calls[r].fetch + calls[r].save

\* fetch_bovespa_data(p) for any period string
TestCallFetch(r) ==
    /\ pc[r] = "test"
    /\ CallsMade(r) < MaxCalls
    /\ \E p \in Periods : EnterFetch(r, p, "test_fetch_ret")
    /\ UNCHANGED <<now, dataDir, logDir, logFile, files, writes, arg, timestamp,
                   readAt, stdout, exit, logConfigured>>

\* save_data(t) for any table
TestCallSave(r) ==
    /\ pc[r] = "test"
    /\ CallsMade(r) < MaxCalls
    /\ \E t \in SaveArguments : EnterSave(r, t, "test_save_ret")
    /\ UNCHANGED <<now, dataDir, logDir, logFile, files, writes, period, data,
                   exc, result, stdout, exit, logConfigured>>

\* The call has returned; the caller goes on.
TestReturn(r) ==
    /\ pc[r] \in {"test_fetch_ret", "test_save_ret"}
    /\ pc' = [pc EXCEPT ![r] = "test"]
    /\ UNCHANGED <<now, dataDir, logDir, logFile, files, writes, ret, period,
                   data, exc, result, arg, timestamp, readAt, stdout, exit,
                   logConfigured, calls, mark>>

\* --------------------------------------------------------- specifications
Fetch(r) ==
    \/ FetchLogStart(r)
    \/ TickerReturns(r)
    \/ TickerRaises(r)
    \/ HistoryReturns(r)
    \/ HistoryRaises(r)
    \/ FetchReturn(r)
    \/ FetchExcept(r)

Save(r) ==
    \/ SaveTimestamp(r)
    \/ SaveToCsv(r)
    \/ SaveLog(r)

Main(r) ==
    \/ SetupDirectories(r)
    \/ SetupDirectoriesFails(r)
    \/ ConfigureLogging(r)
    \/ MainCallFetch(r)
    \/ MainSave(r)
    \/ MainFailure(r)
    \/ MainEnd(r)

Next ==
    \/ Tick
    \/ \E r \in Runs : Main(r)
    \/ \E r \in Runs : Fetch(r)
    \/ \E r \in Runs : Save(r)

Spec == Init /\ [][Next]_vars

NextUnit ==
    \/ Tick
    \/ \E r \in Runs : TestCallFetch(r)
    \/ \E r \in Runs : TestCallSave(r)
    \/ \E r \in Runs : TestReturn(r)
    \/ \E r \in Runs : Fetch(r)
    \/ \E r \in Runs : Save(r)

SpecUnit == InitUnit /\ [][NextUnit]_vars

\* Every step of a run except the provider's answer, which may never come.
Progress(r) ==
    \/ Main(r)
    \/ FetchLogStart(r)
    \/ FetchReturn(r)
    \/ FetchExcept(r)
    \/ Save(r)

\* A process that can take a step eventually takes it.
FairSpec == Spec /\ \A r \in Runs : WF_vars(Progress(r))

\* ======================================================== properties
\* What a reader of the log and of data/ can observe.
IsInfo(l) == l.levelname = "INFO"
IsWarning(l) == l.levelname = "WARNING"
IsError(l) == l.levelname = "ERROR"
IsStart(l) == IsInfo(l) /\ l.message[1] = "Iniciando coleta de dados para "
IsSuccess(l) == IsInfo(l) /\ l.message = <<"Dados coletados com sucesso.">>
IsSaved(l) == IsInfo(l) /\ l.message[1] = "Dados salvos em "

Count(seq, Test(_)) == Len(SelectSeq(seq, Test))
Contains(msg, s) == \E i \in 1..Len(msg) : msg[i] = s

\* The lines run r has logged since its current call began.
Gained(r) == SubSeq(RunLog(r), mark[r] + 1, Len(RunLog(r)))

\* The writes to data/ made by run r.
WritesBy(r) == SelectSeq(writes, LAMBDA w : w.run = r)

\* A table with at least one row and one column (not DataFrame.empty).
NonEmptyTable(t) == Len(t.index) > 0 /\ Len(t.columns) > 0

FailureText == "Falha na coleta de dados. Verifique os logs."

\* The provider's answer to the current call of run r.
ProviderReturned(r) == data[r] # <<>>
ProviderRaised(r) == exc[r] # <<>>

\* The __main__ block of run r has finished its last statement.
Finished(r) == pc[r] \in {"main_end", "exited"}

\* ---------------------------------------------------------------- C1
\* C1: fetch_bovespa_data never lets an exception escape: for every period
\* string and whatever the provider does (a non-empty table, an empty table,
\* an exception from yf.Ticker or from Ticker.history), the call returns a
\* table: the provider's table or an empty table.
C1_FetchNeverRaises ==
    \A r \in Runs :
        /\ ~(pc[r] = "uncaught" /\ ProviderRaised(r))
        /\ pc[r] = "test_fetch_ret" =>
              /\ ProviderReturned(r) \/ ProviderRaised(r)
              /\ Len(result[r]) = 1
              /\ \/ result[r][1] = EmptyDataFrame
                 \/ ProviderReturned(r) /\ result[r][1] = data[r][1]

C1_Witness ==
    \E r \in Runs :
        /\ pc[r] = "test_fetch_ret"
        /\ period[r] = "bogus"
        /\ ProviderRaised(r)
        /\ exc[r][1].tb = "Ticker"
        /\ result[r] = <<EmptyDataFrame>>

\* ---------------------------------------------------------------- C2
\* C2: when the provider returns a non-empty table, fetch_bovespa_data
\* returns exactly that table, and during the call the log gains exactly one
\* INFO success line, no WARNING line and no ERROR line.
C2_SuccessReturnsTable ==
    \A r \in Runs :
        (pc[r] = "test_fetch_ret" /\ ProviderReturned(r) /\ NonEmptyTable(data[r][1])) =>
            /\ result[r] = data[r]
            /\ Count(Gained(r), IsSuccess) = 1
            /\ Count(Gained(r), IsWarning) = 0
            /\ Count(Gained(r), IsError) = 0

C2_Witness ==
    \E r \in Runs :
        /\ pc[r] = "test_fetch_ret"
        /\ ProviderReturned(r)
        /\ Len(data[r][1].index) > HeadRows
        /\ result[r] = data[r]
        /\ calls[r].fetch = 2

\* ---------------------------------------------------------------- C3
\* C3: when the provider raises, fetch_bovespa_data returns an empty table,
\* and during the call the log gains exactly one ERROR line, which contains
\* the exception's message, and no success line.
C3_RaiseReturnsEmpty ==
    \A r \in Runs :
        /\ (pc[r] \in {"fetch_55", "uncaught"}) => ProviderRaised(r) /\ pc[r] # "uncaught"
        /\ (pc[r] = "test_fetch_ret" /\ ProviderRaised(r)) =>
              /\ result[r] = <<EmptyDataFrame>>
              /\ Count(Gained(r), IsError) = 1
              /\ \A i \in 1..Len(Gained(r)) :
                    IsError(Gained(r)[i]) => Contains(Gained(r)[i].message, exc[r][1].msg)
              /\ Count(Gained(r), IsSuccess) = 0

C3_Witness ==
    \E r \in Runs :
        /\ pc[r] = "test_fetch_ret"
        /\ ProviderRaised(r)
        /\ exc[r][1].tb = "history"
        /\ Count(Gained(r), IsError) = 1

\* ---------------------------------------------------------------- C6
\* C6: save_data given a table of N rows, N >= 0, writes one file of N+1
\* lines named bovespa_<current time, to the second>.csv in data/, and logs
\* exactly one INFO line, which contains that path.
ExpectedPath(r) == <<"data", "bovespa_", ToString(readAt[r][1] \div TicksPerSecond), ".csv">>

C6_SaveWritesFile ==
    \A r \in Runs :
        pc[r] = "test_save_ret" =>
            /\ Len(WritesBy(r)) = calls[r].save
            /\ ExpectedPath(r) \in DOMAIN files
            /\ WritesBy(r)[Len(WritesBy(r))].name = ExpectedPath(r)
            /\ Len(files[ExpectedPath(r)]) = Len(arg[r][1].index) + 1
            /\ Len(Gained(r)) = 1
            /\ IsInfo(Gained(r)[1])
            /\ SubSeq(Gained(r)[1].message, 2, Len(Gained(r)[1].message)) = ExpectedPath(r)

C6_Witness ==
    \E r \in Runs :
        /\ pc[r] = "test_save_ret"
        /\ arg[r] = <<EmptyDataFrame>>
        /\ Len(files[ExpectedPath(r)]) = 1
        /\ readAt[r][1] % TicksPerSecond # 0

\* ---------------------------------------------------------------- C4
\* C4: a run whose provider raises writes no file in data/, logs exactly one
\* ERROR line (containing the exception's text), never calls save_data, and
\* prints the failure message.
C4_RaisingRunSavesNothing ==
    \A r \in Runs :
        ProviderRaised(r) =>
            /\ calls[r].save = 0
            /\ WritesBy(r) = <<>>
            /\ pc[r] # "uncaught"
            /\ Finished(r) =>
                  /\ Count(RunLog(r), IsError) = 1
                  /\ \A i \in 1..Len(RunLog(r)) :
                        IsError(RunLog(r)[i]) =>
                            Contains(RunLog(r)[i].message, exc[r][1].msg)
                  /\ Len(stdout[r]) = 1
                  /\ stdout[r][1].kind = "text"
                  /\ stdout[r][1].text = FailureText

C4_Witness ==
    \E r \in Runs :
        /\ pc[r] = "exited"
        /\ ProviderRaised(r)
        /\ exc[r][1].cls = "ConnectionError"
        /\ DOMAIN files = {}

\* ---------------------------------------------------------------- C5
\* C5: a run whose provider returns a non-empty table of N rows writes
\* exactly one file, of N+1 lines, logs at least three INFO lines (start,
\* success, save) and no ERROR line, and prints the first rows of the table.
FirstRows(t) == SubSeq(t.index, 1, IF Len(t.index) < 5 THEN Len(t.index) ELSE 5)

C5_SuccessfulRunSaves ==
    \A r \in Runs :
        (Finished(r) /\ ProviderReturned(r) /\ NonEmptyTable(data[r][1])) =>
            /\ Len(WritesBy(r)) = 1
            /\ Len(WritesBy(r)[1].lines) = Len(data[r][1].index) + 1
            /\ WritesBy(r)[1].name \in DOMAIN files
            /\ Count(RunLog(r), IsInfo) >= 3
            /\ Count(RunLog(r), IsStart) = 1
            /\ Count(RunLog(r), IsSuccess) = 1
            /\ Count(RunLog(r), IsSaved) = 1
            /\ Count(RunLog(r), IsError) = 0
            /\ Len(stdout[r]) = 2
            /\ stdout[r][2].kind = "frame"
            /\ stdout[r][2].frame.columns = data[r][1].columns
            /\ stdout[r][2].frame.index = FirstRows(data[r][1])

C5_Witness ==
    \E r \in Runs :
        /\ pc[r] = "exited"
        /\ ProviderReturned(r)
        /\ Len(data[r][1].index) > 5
        /\ Len(WritesBy(r)) = 1
        /\ Len(files[WritesBy(r)[1].name]) = Len(data[r][1].index) + 1

\* ---------------------------------------------------------------- C7
\* C7: a run whose provider returns an empty table and a run whose provider
\* raises look the same to the caller and to the user: the same empty table
\* returned, the same failure message printed, no file written, the same
\* exit status; they differ only in the log (WARNING against ERROR).
AfterFetch(r) == pc[r] \in {"main_72", "main_end", "exited"}

Levels(r) == [i \in 1..Len(RunLog(r)) |-> RunLog(r)[i].levelname]

C7_EmptyAndRaiseAlike ==
    \A r1, r2 \in Runs :
        (/\ AfterFetch(r1) /\ ProviderReturned(r1) /\ ~NonEmptyTable(data[r1][1])
         /\ AfterFetch(r2) /\ ProviderRaised(r2)) =>
            /\ result[r1] = result[r2]
            /\ result[r1] = <<EmptyDataFrame>>
            /\ WritesBy(r1) = <<>> /\ WritesBy(r2) = <<>>
            /\ Levels(r1) = <<"INFO", "WARNING">>
            /\ Levels(r2) = <<"INFO", "ERROR">>
            /\ (Finished(r1) /\ Finished(r2)) => stdout[r1] = stdout[r2]
            /\ (pc[r1] = "exited" /\ pc[r2] = "exited") => exit[r1] = exit[r2]

C7_Witness ==
    \E r1, r2 \in Runs :
        /\ pc[r1] = "exited" /\ pc[r2] = "exited"
        /\ ProviderReturned(r1) /\ Len(data[r1][1].columns) > 0
        /\ ~NonEmptyTable(data[r1][1])
        /\ ProviderRaised(r2)
        /\ stdout[r1] = stdout[r2]

\* ---------------------------------------------------------------- C8
\* C8: no overwrite protection: a run saves at most once, but two runs that
\* read the clock within the same second derive the same file name; the
\* later write replaces the earlier content, nothing is raised, and both
\* runs log a save confirmation for the same path.
Second(r) == readAt[r][1] \div TicksPerSecond

Wrote(r) == WritesBy(r) # <<>>

C8_SameSecondOverwrites ==
    /\ \A r \in Runs : Len(WritesBy(r)) <= 1 /\ calls[r].save <= 1
    /\ \A n \in DOMAIN files :
          \E i \in 1..Len(writes) :
              /\ writes[i].name = n
              /\ files[n] = writes[i].lines
              /\ \A j \in (i + 1)..Len(writes) : writes[j].name # n
    /\ \A r1, r2 \in Runs :
          (r1 # r2 /\ readAt[r1] # <<>> /\ readAt[r2] # <<>> /\ Second(r1) = Second(r2)) =>
              /\ timestamp[r1] = timestamp[r2]
              /\ pc[r1] # "uncaught" /\ pc[r2] # "uncaught"
              /\ (Wrote(r1) /\ Wrote(r2)) =>
                    /\ WritesBy(r1)[1].name = WritesBy(r2)[1].name
                    /\ Cardinality(DOMAIN files) = 1
                    /\ files[writes[2].name] = writes[2].lines
              /\ (Finished(r1) /\ Finished(r2)) =>
                    \E i, j \in 1..Len(logFile) :
                        /\ logFile[i].run = r1 /\ IsSaved(logFile[i])
                        /\ logFile[j].run = r2 /\ IsSaved(logFile[j])
                        /\ logFile[i].message = logFile[j].message
                        /\ Contains(logFile[i].message, timestamp[r1][1])

C8_Witness ==
    \E r1, r2 \in Runs :
        /\ r1 # r2
        /\ pc[r1] = "exited" /\ pc[r2] = "exited"
        /\ Wrote(r1) /\ Wrote(r2)
        /\ readAt[r1][1] < readAt[r2][1]
        /\ Second(r1) = Second(r2)
        /\ data[r1] # data[r2]
        /\ writes[2].run = r2
        /\ Cardinality(DOMAIN files) = 1
        /\ files[writes[1].name] = ToCsv(data[r2][1])

\* ---------------------------------------------------------------- C9
\* C9: once directory setup has succeeded and the provider has returned or
\* raised, a run performs each pipeline step at most once, terminates, and
\* exits with status 0 whatever the outcome of the fetch was.
ProviderAnswered(r) == pc[r] \in {"fetch_48", "fetch_55"}

ExitedZero(r) == pc[r] = "exited" /\ exit[r] = <<0>>

StepsAtMostOnce ==
    \A r \in Runs :
        /\ calls[r].setup <= 1
        /\ calls[r].configure <= 1
        /\ calls[r].fetch <= 1
        /\ calls[r].save <= 1

C9_TerminatesWithZero ==
    /\ []StepsAtMostOnce
    /\ \A r \in Runs : ProviderAnswered(r) ~> ExitedZero(r)
    /\ [][\A r \in Runs : ExitedZero(r) => (ExitedZero(r))']_vars

C9_Witness ==
    \E r1, r2 \in Runs :
        /\ ExitedZero(r1) /\ ExitedZero(r2)
        /\ ProviderRaised(r1)
        /\ Wrote(r2)
        /\ calls[r1] = [setup |-> 1, configure |-> 1, fetch |-> 1, save |-> 0]
        /\ calls[r2] = [setup |-> 1, configure |-> 1, fetch |-> 1, save |-> 1]

\* --------------------------------------------------------------- C10
\* C10: in every run the start line is logged first, followed by exactly one
\* of success, empty-result warning or error; a save confirmation follows
\* only a success line of the same run; nothing is logged before both
\* directories exist and the logger is configured; and the lines already in
\* the log file are never removed or changed.
Kind(l) ==
    CASE IsStart(l)   -> "start"
      [] IsSuccess(l) -> "success"
      [] IsSaved(l)   -> "saved"
      [] IsWarning(l) -> "warning"
      [] IsError(l)   -> "error"
      [] OTHER        -> "other"

LogKinds(r) == [i \in 1..Len(RunLog(r)) |-> Kind(RunLog(r)[i])]

IsPrefixOf(s, t) == Len(s) <= Len(t) /\ SubSeq(t, 1, Len(s)) = s

CompleteLogs == {<<"start", "success", "saved">>, <<"start", "warning">>, <<"start", "error">>}

LogInOrder ==
    \A r \in Runs :
        /\ \E a \in CompleteLogs : IsPrefixOf(LogKinds(r), a)
        /\ Finished(r) => LogKinds(r) \in CompleteLogs
        /\ RunLog(r) # <<>> => logConfigured[r] /\ dataDir /\ logDir

C10_LogOrderedAppendOnly ==
    /\ []LogInOrder
    /\ [][IsPrefixOf(logFile, logFile')]_vars

C10_Witness ==
    /\ \A r \in Runs : pc[r] = "exited"
    /\ Len(logFile) = 5
    /\ logFile[1].run # logFile[2].run
    /\ logFile[4].run # logFile[5].run
    /\ Kind(logFile[5]) = "saved"

====
